---- MODULE Spec2Model ----
(***************************************************************************)
(* Model of the product routes of the backend (Routes/productRoutes.js):   *)
(* the four GET handlers /getData, /stats, /price and /category, the       *)
(* validation they perform, the query or aggregation pipeline they hand to *)
(* the store, and the response they build from the store's answer.         *)
(*                                                                         *)
(* A handler runs in two steps, as the event loop runs it: the synchronous *)
(* part up to the await of the store call, and the continuation once the   *)
(* store has answered (or rejected).  Query-string values are sequences of *)
(* one-character strings; a parameter that is not in the query string is   *)
(* not in the domain of the request's params.                              *)
(***************************************************************************)
EXTENDS Integers, Sequences, FiniteSets, TLC

VARIABLES store, reqs, thisYear

vars == <<store, reqs, thisYear>>

(***************************************************************************)
(* Bounds of the model.                                                    *)
(***************************************************************************)
MaxRecords == 2

MaxInFlight == 2

(***************************************************************************)
(* JavaScript values: numbers (with NaN), strings, truthiness.             *)
(***************************************************************************)
NaN == [nan |-> TRUE, v |-> 0]

Num(n) == [nan |-> FALSE, v |-> n]

DigitChars == <<"0", "1", "2", "3", "4", "5", "6", "7", "8", "9">>

IsDigit(c) == \E i \in 1..10 : DigitChars[i] = c

DigitVal(c) == (CHOOSE i \in 1..10 : DigitChars[i] = c) - 1

RECURSIVE DigitPrefixLen(_)
DigitPrefixLen(s) ==
  IF s = <<>> \/ ~IsDigit(Head(s)) THEN 0 ELSE 1 + DigitPrefixLen(Tail(s))

RECURSIVE DigitsValue(_)
DigitsValue(s) ==
  IF s = <<>> THEN 0 ELSE 10 * DigitsValue(SubSeq(s, 1, Len(s) - 1)) + DigitVal(s[Len(s)])

\* req.query.<name>: undefined when the parameter is not in the query string.
Has(params, name) == name \in DOMAIN params

\* A query-string value is truthy iff it is present and not the empty string.
Truthy(params, name) == Has(params, name) /\ params[name] # <<>>

StrOf(params, name) == IF Has(params, name) THEN params[name] ELSE <<"u", "n", "d", "e", "f", "i", "n", "e", "d">>

\* parseInt(str) / parseInt(str, 10): an optional sign, then the longest prefix
\* of decimal digits; NaN when there is none.  The request values of the model
\* hold no white space and no 0x prefix, on which the two forms agree.
ParseInt(s) ==
  LET neg == s # <<>> /\ Head(s) = "-"
      body == IF neg THEN Tail(s) ELSE s
      n == DigitPrefixLen(body)
  IN IF n = 0 THEN NaN
     ELSE Num((IF neg THEN -1 ELSE 1) * DigitsValue(SubSeq(body, 1, n)))

\* Number(str), as isNaN(str) coerces it: the whole string must be a numeric
\* literal.  Exact on strings of signs, digits and letters without a decimal
\* point next to a digit, white space, exponent or radix prefix.
ToNumber(s) ==
  LET neg == s # <<>> /\ Head(s) = "-"
      body == IF neg THEN Tail(s) ELSE s
  IN IF s = <<>> THEN Num(0)
     ELSE IF body # <<>> /\ DigitPrefixLen(body) = Len(body)
          THEN Num((IF neg THEN -1 ELSE 1) * DigitsValue(body))
          ELSE NaN

IsNaN(x) == x.nan

\* parseFloat(str) on the same strings: the longest numeric prefix.
ParseFloat(s) == ParseInt(s)

\* JavaScript relational operators on numbers: false when either side is NaN.
Lt(a, b) == ~a.nan /\ ~b.nan /\ a.v < b.v

Gt(a, b) == ~a.nan /\ ~b.nan /\ a.v > b.v

\* Number.prototype.toString() of a non-negative integer below 100.
NumToString(n) ==
  IF n < 10 THEN <<DigitChars[n + 1]>>
  ELSE <<DigitChars[(n \div 10) + 1], DigitChars[(n % 10) + 1]>>

\* String.prototype.padStart(2, '0').
PadStart2(s) == IF Len(s) >= 2 THEN s ELSE <<"0">> \o s

(***************************************************************************)
(* The Product records of the store (schema/product): text fields are      *)
(* sequences of characters, price an integer, dateOfSale a UTC date.       *)
(***************************************************************************)
MensClothing == <<"m", "e", "n", "'", "s", " ", "c", "l", "o", "t", "h", "i", "n", "g">>

WomensClothing == <<"w", "o", "m", "e", "n", "'", "s", " ", "c", "l", "o", "t", "h", "i", "n", "g">>

Electronics == <<"e", "l", "e", "c", "t", "r", "o", "n", "i", "c", "s">>

Jewelry == <<"j", "e", "w", "e", "l", "r", "y">>

\* A category of the seeded data that is not one of the four labels.
Jewelery == <<"j", "e", "w", "e", "l", "e", "r", "y">>

InvalidDate == [valid |-> FALSE, y |-> 0, m |-> 0, d |-> 0]

Date(y, m, d) == [valid |-> TRUE, y |-> y, m |-> m, d |-> d]

\* Date comparison as the store orders dates; an invalid date orders with nothing.
DateLt(a, b) ==
  /\ a.valid /\ b.valid
  /\ \/ a.y < b.y
     \/ a.y = b.y /\ a.m < b.m
     \/ a.y = b.y /\ a.m = b.m /\ a.d < b.d

DateGte(a, b) == a.valid /\ b.valid /\ ~DateLt(a, b)

BaseProduct ==
  [title |-> <<"a", "b">>, description |-> <<"c">>, category |-> Electronics,
   price |-> 100, sold |-> TRUE, dateOfSale |-> Date(2021, 1, 31)]

Titles == {<<"a", "b">>, <<"x", "y">>}

Descriptions == {<<"c">>, <<"A", "b">>}

Categories == {Electronics, Jewelry, Jewelery}

Prices == {-5, 0, 100, 101, 900, 901}

Dates ==
  {Date(2020, 12, 31), Date(2021, 1, 1), Date(2021, 1, 31), Date(2021, 2, 1),
   Date(2021, 12, 15), Date(2022, 1, 10)}

\* The records a store is seeded from: the base record with one field changed.
Products ==
    {[BaseProduct EXCEPT !.title = t] : t \in Titles}
  \cup {[BaseProduct EXCEPT !.description = t] : t \in Descriptions}
  \cup {[BaseProduct EXCEPT !.category = t] : t \in Categories}
  \cup {[BaseProduct EXCEPT !.price = t] : t \in Prices}
  \cup {[BaseProduct EXCEPT !.sold = t] : t \in BOOLEAN}
  \cup {[BaseProduct EXCEPT !.dateOfSale = t] : t \in Dates}

Stores == {S \in SUBSET Products : Cardinality(S) <= MaxRecords}

(***************************************************************************)
(* The store's evaluation of a filter and of the aggregation stages.       *)
(***************************************************************************)
UpperChars == <<"A", "B", "C", "D", "E", "F", "G", "H", "I", "J", "K", "L", "M", "N", "O", "P", "Q", "R", "S", "T", "U", "V", "W", "X", "Y", "Z">>

LowerChars == <<"a", "b", "c", "d", "e", "f", "g", "h", "i", "j", "k", "l", "m", "n", "o", "p", "q", "r", "s", "t", "u", "v", "w", "x", "y", "z">>

Lower(c) ==
  IF \E i \in 1..26 : UpperChars[i] = c
  THEN LowerChars[CHOOSE i \in 1..26 : UpperChars[i] = c]
  ELSE c

\* One pattern character against one text character under option 'i':
\* "." matches any character, any other character of the model's patterns
\* is a literal.
RegexCharMatches(p, c) == p = "." \/ Lower(p) = Lower(c)

\* { field: { $regex: pattern, $options: 'i' } }: an unanchored match.
RegexMatches(pattern, text) ==
  \E i \in 1..(Len(text) - Len(pattern) + 1) :
    \A j \in 1..Len(pattern) : RegexCharMatches(pattern[j], text[i + j - 1])

(***************************************************************************)
(* /getData: the filter built from the query string (lines 10-38).         *)
(***************************************************************************)
\* new Date(`2021-${mm}-01T00:00:00Z`): an Invalid Date unless mm is a
\* two-digit month 01..12.
NewDate2021(mm) ==
  IF Len(mm) = 2 /\ DigitPrefixLen(mm) = 2 /\ DigitsValue(mm) \in 1..12
  THEN Date(2021, DigitsValue(mm), 1)
  ELSE InvalidDate

NoQuery == [none |-> TRUE]

\* The $or part of the filter: the three regex clauses and, for a numeric
\* search term, the price clause.
SearchClause(params) ==
  IF Truthy(params, "search")
  THEN [useOr |-> TRUE, regex |-> params["search"],
        usePrice |-> ~IsNaN(ToNumber(params["search"])),
        priceLte |-> ParseFloat(params["search"])]
  ELSE [useOr |-> FALSE, regex |-> <<>>, usePrice |-> FALSE, priceLte |-> NaN]

MonthNumber(params) == ParseInt(StrOf(params, "month"))

GetDataMonthInvalid(params) ==
  /\ Truthy(params, "month")
  /\ \/ IsNaN(MonthNumber(params))
     \/ Lt(MonthNumber(params), Num(1))
     \/ Gt(MonthNumber(params), Num(12))

\* The dateOfSale part of the filter.
DateClause(params) ==
  IF Truthy(params, "month")
  THEN [useDate |-> TRUE,
        gte |-> NewDate2021(PadStart2(NumToString(MonthNumber(params).v))),
        lt |-> NewDate2021(PadStart2(NumToString(MonthNumber(params).v + 1)))]
  ELSE [useDate |-> FALSE, gte |-> InvalidDate, lt |-> InvalidDate]

BuildQuery(params) == [search |-> SearchClause(params), date |-> DateClause(params)]

OrMatches(c, r) ==
  \/ RegexMatches(c.regex, r.title)
  \/ RegexMatches(c.regex, r.description)
  \/ RegexMatches(c.regex, r.category)
  \/ c.usePrice /\ ~c.priceLte.nan /\ r.price <= c.priceLte.v

DateMatches(c, r) == DateGte(r.dateOfSale, c.gte) /\ DateLt(r.dateOfSale, c.lt)

\* A filter's top-level fields are AND-combined.
Matches(q, r) ==
  /\ q.search.useOr => OrMatches(q.search, r)
  /\ q.date.useDate => DateMatches(q.date, r)

\* Product.find(query).
Find(q, S) == {r \in S : Matches(q, r)}

\* The filter holds a Date that is an Invalid Date.
HasInvalidDate(q) == q.date.useDate /\ (~q.date.gte.valid \/ ~q.date.lt.valid)

(***************************************************************************)
(* The aggregation pipelines of /stats, /price and /category.              *)
(***************************************************************************)
\* { $eq: [{ $month: "$dateOfSale" }, monthInt] }: never true of NaN.
MonthIs(r, monthInt) == ~monthInt.nan /\ r.dateOfSale.m = monthInt.v

YearIs(r, yearInt) == ~yearInt.nan /\ r.dateOfSale.y = yearInt.v

MatchMonthYear(S, monthInt, yearInt) ==
  {r \in S : MonthIs(r, monthInt) /\ YearIs(r, yearInt)}

\* The $match of /category restricted to the year /getData fixes.
MatchMonthOf2021(S, monthInt) ==
  {r \in S : MonthIs(r, monthInt) /\ r.dateOfSale.y = 2021}

MatchMonth(S, monthInt) == {r \in S : MonthIs(r, monthInt)}

RECURSIVE SumPrice(_)
SumPrice(S) ==
  IF S = {} THEN 0
  ELSE LET r == CHOOSE x \in S : TRUE IN r.price + SumPrice(S \ {r})

\* The $group stage summing price over every matched record, sold or not.
StatsGroupAllPrices(M) ==
  [totalSaleAmount |-> SumPrice(M),
   totalSoldItems |-> Cardinality({r \in M : r.sold = TRUE}),
   totalNotSoldItems |-> Cardinality({r \in M : r.sold = FALSE})]

\* The $group stage of /stats over the matched records (one document).
StatsGroup(M) ==
  [totalSaleAmount |-> SumPrice({r \in M : r.sold = TRUE}),
   totalSoldItems |-> Cardinality({r \in M : r.sold = TRUE}),
   totalNotSoldItems |-> Cardinality({r \in M : r.sold = FALSE})]

\* Product.aggregate of /stats: no document when nothing matches.
StatsAggregate(S, monthInt, yearInt) ==
  LET M == MatchMonthYear(S, monthInt, yearInt)
  IN IF M = {} THEN <<>> ELSE <<StatsGroup(M)>>

BandLabels ==
  <<"0-100", "101-200", "201-300", "301-400", "401-500", "501-600", "601-700",
    "701-800", "801-900", "901-above">>

\* The bands with $gte in place of $gt on the lower bound.
InBandInclusiveLower(k, price) ==
  IF k = 1 THEN price >= 0 /\ price <= 100
  ELSE IF k = 10 THEN price >= 900
  ELSE price >= 100 * (k - 1) /\ price <= 100 * k

\* The $cond of the k-th accumulator of the $group stage of /price.
InBand(k, price) ==
  IF k = 1 THEN price >= 0 /\ price <= 100
  ELSE IF k = 10 THEN price > 900
  ELSE price > 100 * (k - 1) /\ price <= 100 * k

PriceGroup(M) == [k \in 1..10 |-> Cardinality({r \in M : InBand(k, r.price)})]

PriceAggregate(S, monthInt, yearInt) ==
  LET M == MatchMonthYear(S, monthInt, yearInt)
  IN IF M = {} THEN <<>> ELSE <<PriceGroup(M)>>

\* Product.aggregate of /category: one document per category present.
CategoryAggregate(S, monthInt) ==
  LET M == MatchMonth(S, monthInt)
  IN {[category |-> c, itemCount |-> Cardinality({r \in M : r.category = c})] :
        c \in {r.category : r \in M}}

categories == <<MensClothing, WomensClothing, Electronics, Jewelry>>

\* categories.map(cat => ...): the four labels in order, 0 when not found.
CategoryStats(stats) ==
  [i \in 1..4 |->
    [category |-> categories[i],
     itemCount |-> IF \E s \in stats : s.category = categories[i]
                   THEN (CHOOSE s \in stats : s.category = categories[i]).itemCount
                   ELSE 0]]

\* The body of the /stats response.
StatsBody(stats) ==
  [totalSaleAmount |-> IF stats # <<>> THEN stats[1].totalSaleAmount ELSE 0,
   totalSoldItems |-> IF stats # <<>> THEN stats[1].totalSoldItems ELSE 0,
   totalNotSoldItems |-> IF stats # <<>> THEN stats[1].totalNotSoldItems ELSE 0]

\* The body of the /price response: stats[0]?.range || 0 for each band.
PriceBody(stats) ==
  [priceRanges |->
    [b \in {BandLabels[k] : k \in 1..10} |->
      LET k == CHOOSE i \in 1..10 : BandLabels[i] = b
      IN IF stats # <<>> THEN stats[1][k] ELSE 0]]

(***************************************************************************)
(* Requests and the handlers' state.                                       *)
(***************************************************************************)
Slots == 1..MaxInFlight

MonthValues ==
  {<<>>, <<"0">>, <<"1">>, <<"1", "2">>, <<"1", "3">>, <<"-", "1">>,
   <<"a", "b", "c">>, <<"1", "a">>}

YearValues ==
  {<<>>, <<"1", "8", "9", "9">>, <<"1", "9", "0", "0">>, <<"2", "0", "2", "1">>,
   <<"2", "0", "2", "2">>, <<"a", "b", "c">>}

SearchValues ==
  {<<>>, <<"a">>, <<"A", "B">>, <<".">>, <<"1", "0", "0">>, <<"1", "a">>}

\* The current year, new Date().getFullYear(), over the life of the server.
Years == {2021, 2022}

\* A parameter left out of the query string, or given one of the values.
OptParam(name, values) == {<<>>} \cup {name :> v : v \in values}

GetDataParams ==
  {a @@ b : a \in OptParam("search", SearchValues), b \in OptParam("month", MonthValues)}

MonthYearParams ==
  {a @@ b : a \in OptParam("month", MonthValues), b \in OptParam("year", YearValues)}

CategoryParams == OptParam("month", MonthValues)

\* Messages of the errors the store rejects a query with.
StoreErrors == {"connection closed", "operation timed out"}

\* Mongoose's message when a filter value cannot be cast to the field's type.
CastErrorMessage == "Cast to date failed"

NoBody == [none |-> TRUE]

IdleSlot ==
  [pc |-> "idle", ep |-> "", params |-> <<>>, query |-> NoQuery, queried |-> FALSE,
   error |-> "", status |-> 0, body |-> NoBody, logged |-> "", sent |-> 0]

\* res.status(code).json(body): one more response on the request of slot s.
Respond(slot, code, body, logged) ==
  [slot EXCEPT !.pc = "done", !.status = code, !.body = body, !.logged = logged,
               !.sent = @ + 1]

\* The handler suspends at the await of the store call.
Await(slot, query) == [slot EXCEPT !.pc = "awaiting", !.query = query, !.queried = TRUE]

Arrive(ep, params) == [IdleSlot EXCEPT !.ep = ep, !.params = params]

TypeOK ==
  /\ store \in Stores
  /\ thisYear \in Years
  /\ \A s \in Slots : reqs[s].pc \in {"idle", "awaiting", "done"}

Init ==
  /\ store \in Stores
  /\ thisYear \in Years
  /\ reqs = [s \in Slots |-> IdleSlot]

(***************************************************************************)
(* The synchronous part of each handler, up to the await.                  *)
(***************************************************************************)
GetDataStart(params) ==
  IF GetDataMonthInvalid(params)
  THEN Respond(Arrive("getData", params), 400,
               [message |-> "Invalid month provided. It must be between 1 and 12."], "")
  ELSE Await(Arrive("getData", params), BuildQuery(params))

GetData(s, params) ==
  /\ reqs[s].pc = "idle"
  /\ reqs' = [reqs EXCEPT ![s] = GetDataStart(params)]
  /\ UNCHANGED <<store, thisYear>>

MonthInt(params) == ParseInt(StrOf(params, "month"))

YearInt(params) == ParseInt(StrOf(params, "year"))

\* The month check without its lower bound.
MonthRejectedNoLowerBound(params) ==
  \/ ~Truthy(params, "month")
  \/ Gt(ParseInt(StrOf(params, "month")), Num(12))

\* !month || monthInt < 1 || monthInt > 12
MonthRejected(params) ==
  \/ ~Truthy(params, "month")
  \/ Lt(MonthInt(params), Num(1))
  \/ Gt(MonthInt(params), Num(12))

StatsRejected(params) == MonthRejected(params) \/ ~Truthy(params, "year")

StatsStart(params) ==
  IF StatsRejected(params)
  THEN Respond(Arrive("stats", params), 400,
               [error |-> "Please provide a valid month (1-12) and year."], "")
  ELSE Await(Arrive("stats", params),
             [monthInt |-> MonthInt(params), yearInt |-> YearInt(params)])

Stats(s, params) ==
  /\ reqs[s].pc = "idle"
  /\ reqs' = [reqs EXCEPT ![s] = StatsStart(params)]
  /\ UNCHANGED <<store, thisYear>>

\* !year || isNaN(yearInt) || yearInt < 1900 || yearInt > new Date().getFullYear()
PriceYearRejected(params, now) ==
  \/ ~Truthy(params, "year")
  \/ IsNaN(YearInt(params))
  \/ Lt(YearInt(params), Num(1900))
  \/ Gt(YearInt(params), Num(now))

PriceStart(params, now) ==
  IF MonthRejected(params)
  THEN Respond(Arrive("price", params), 400,
               [error |-> "Please provide a valid month (1-12)."], "")
  ELSE IF PriceYearRejected(params, now)
  THEN Respond(Arrive("price", params), 400,
               [error |-> "Please provide a valid year."], "")
  ELSE Await(Arrive("price", params),
             [monthInt |-> MonthInt(params), yearInt |-> YearInt(params)])

Price(s, params) ==
  /\ reqs[s].pc = "idle"
  /\ reqs' = [reqs EXCEPT ![s] = PriceStart(params, thisYear)]
  /\ UNCHANGED <<store, thisYear>>

CategoryStart(params) ==
  IF MonthRejected(params)
  THEN Respond(Arrive("category", params), 400,
               [error |-> "Please provide a valid month (1-12)."], "")
  ELSE Await(Arrive("category", params), [monthInt |-> MonthInt(params)])

Category(s, params) ==
  /\ reqs[s].pc = "idle"
  /\ reqs' = [reqs EXCEPT ![s] = CategoryStart(params)]
  /\ UNCHANGED <<store, thisYear>>

(***************************************************************************)
(* The continuation of each handler once the store has answered.           *)
(***************************************************************************)
\* The filter kept in a variable the handler's invocations share: a request
\* awaiting the store on the same route has overwritten it.
SharedQuery(s) ==
  IF \E o \in Slots \ {s} : reqs[o].pc = "awaiting" /\ reqs[o].ep = reqs[s].ep
  THEN reqs[CHOOSE o \in Slots \ {s} :
              reqs[o].pc = "awaiting" /\ reqs[o].ep = reqs[s].ep].query
  ELSE reqs[s].query

\* The filter the continuation of the request in slot s closed over.
QueryOf(s) == reqs[s].query

\* The length test off by one.
GetDataFinishMoreThanOne(slot, products) ==
  IF Cardinality(products) > 1
  THEN Respond(slot, 200, products, "")
  ELSE Respond(slot, 404, [message |-> "No products found"], "")

GetDataFinish(slot, products) ==
  IF Cardinality(products) > 0
  THEN Respond(slot, 200, products, "")
  ELSE Respond(slot, 404, [message |-> "No products found"], "")

GetDataDone(s) ==
  /\ reqs[s].pc = "awaiting" /\ reqs[s].ep = "getData"
  /\ reqs' = [reqs EXCEPT ![s] = GetDataFinish(reqs[s], Find(QueryOf(s), store))]
  /\ UNCHANGED <<store, thisYear>>

StatsFinish(slot, stats) == Respond(slot, 200, StatsBody(stats), "")

StatsDone(s) ==
  /\ reqs[s].pc = "awaiting" /\ reqs[s].ep = "stats"
  /\ reqs' = [reqs EXCEPT ![s] =
       StatsFinish(reqs[s], StatsAggregate(store, QueryOf(s).monthInt, QueryOf(s).yearInt))]
  /\ UNCHANGED <<store, thisYear>>

PriceFinish(slot, stats) == Respond(slot, 200, PriceBody(stats), "")

PriceDone(s) ==
  /\ reqs[s].pc = "awaiting" /\ reqs[s].ep = "price"
  /\ reqs' = [reqs EXCEPT ![s] =
       PriceFinish(reqs[s], PriceAggregate(store, QueryOf(s).monthInt, QueryOf(s).yearInt))]
  /\ UNCHANGED <<store, thisYear>>

CategoryFinish(slot, stats) == Respond(slot, 200, CategoryStats(stats), "")

CategoryDone(s) ==
  /\ reqs[s].pc = "awaiting" /\ reqs[s].ep = "category"
  /\ reqs' = [reqs EXCEPT ![s] =
       CategoryFinish(reqs[s], CategoryAggregate(store, QueryOf(s).monthInt))]
  /\ UNCHANGED <<store, thisYear>>

\* The awaited store call rejects with an error of this message.
Rejected(slot, message) == [slot EXCEPT !.error = message]

\* A catch block that reports a failed store call as an empty result.
CatchAsNotFound(slot, message) ==
  Respond(slot, 404, [message |-> "No products found"], message)

\* The catch block of each handler: /getData answers with error.message, the
\* other three log the error and answer with a fixed text.
Catch(slot, message) ==
  IF slot.ep = "getData" THEN Respond(slot, 500, [message |-> message], "")
  ELSE IF slot.ep = "stats"
  THEN Respond(slot, 500, [error |-> "Failed to fetch monthly statistics."], message)
  ELSE IF slot.ep = "price"
  THEN Respond(slot, 500, [error |-> "Failed to fetch price range statistics."], message)
  ELSE Respond(slot, 500, [error |-> "Failed to fetch category statistics."], message)

\* The store call rejects (the connection is lost, the operation times out).
StoreRejects(s, message) ==
  /\ reqs[s].pc = "awaiting"
  /\ reqs' = [reqs EXCEPT ![s] = Catch(Rejected(reqs[s], message), message)]
  /\ UNCHANGED <<store, thisYear>>

\* Product.find rejects a filter whose Date is an Invalid Date when the schema
\* types dateOfSale as a Date; GetDataDone covers the schema that does not.
GetDataCastError(s) ==
  /\ reqs[s].pc = "awaiting" /\ reqs[s].ep = "getData"
  /\ HasInvalidDate(QueryOf(s))
  /\ reqs' = [reqs EXCEPT ![s] = Catch(Rejected(reqs[s], CastErrorMessage), CastErrorMessage)]
  /\ UNCHANGED <<store, thisYear>>

\* The response has gone out; the slot takes the next request.
Close(s) ==
  /\ reqs[s].pc = "done"
  /\ reqs' = [reqs EXCEPT ![s] = IdleSlot]
  /\ UNCHANGED <<store, thisYear>>

\* The calendar year turns while the server runs.
NewYear ==
  /\ thisYear + 1 \in Years
  /\ thisYear' = thisYear + 1
  /\ UNCHANGED <<store, reqs>>

Step(s, getDataParams, monthYearParams, categoryParams) ==
  \/ \E p \in getDataParams : GetData(s, p)
  \/ \E p \in monthYearParams : Stats(s, p)
  \/ \E p \in monthYearParams : Price(s, p)
  \/ \E p \in categoryParams : Category(s, p)
  \/ GetDataDone(s)
  \/ GetDataCastError(s)
  \/ StatsDone(s)
  \/ PriceDone(s)
  \/ CategoryDone(s)
  \/ \E e \in StoreErrors : StoreRejects(s, e)
  \/ Close(s)

\* One client that sends one request at a time, any request of the model.
Next == Step(1, GetDataParams, MonthYearParams, CategoryParams) \/ NewYear

Spec == Init /\ [][Next]_vars

(***************************************************************************)
(* Concurrent clients: up to MaxInFlight requests in flight at once, over  *)
(* a smaller population of requests and records.                           *)
(***************************************************************************)
ConcurrentGetData ==
  {("search" :> <<"a">>) @@ ("month" :> <<"1">>), "month" :> <<"1", "2">>, <<>>}

ConcurrentMonthYear == {("month" :> <<"1">>) @@ ("year" :> <<"2", "0", "2", "2">>)}

ConcurrentCategory == {"month" :> <<"1">>}

ConcurrentProducts ==
  {BaseProduct, [BaseProduct EXCEPT !.title = <<"x", "y">>],
   [BaseProduct EXCEPT !.dateOfSale = Date(2021, 12, 15)]}

InitConcurrent ==
  /\ store \in {S \in Stores : S \subseteq ConcurrentProducts}
  /\ thisYear \in Years
  /\ reqs = [s \in Slots |-> IdleSlot]

NextConcurrent ==
  \/ \E s \in Slots : Step(s, ConcurrentGetData, ConcurrentMonthYear, ConcurrentCategory)
  \/ NewYear

SpecConcurrent == InitConcurrent /\ [][NextConcurrent]_vars

(***************************************************************************)
(* Vocabulary of the properties.                                           *)
(***************************************************************************)
\* The value is a decimal integer literal: an optional sign and digits only.
IsIntLiteral(s) ==
  LET body == IF s # <<>> /\ Head(s) = "-" THEN Tail(s) ELSE s
  IN body # <<>> /\ \A i \in 1..Len(body) : IsDigit(body[i])

IntValue(s) ==
  IF Head(s) = "-" THEN 0 - DigitsValue(Tail(s)) ELSE DigitsValue(s)

\* The request gives month as an integer literal in lo..hi.
MonthLiteralIn(slot, lo, hi) ==
  /\ Has(slot.params, "month")
  /\ IsIntLiteral(slot.params["month"])
  /\ IntValue(slot.params["month"]) \in lo..hi

YearLiteral(slot) == Has(slot.params, "year") /\ IsIntLiteral(slot.params["year"])

\* The request was answered and its store call, if any, did not reject.
AnsweredByStore(slot) == slot.pc = "done" /\ slot.queried /\ slot.error = ""

\* The records dated in month m of year y, and in month m of any year.
InMonthOfYear(S, m, y) == {r \in S : r.dateOfSale.m = m /\ r.dateOfSale.y = y}

InMonth(S, m) == {r \in S : r.dateOfSale.m = m}

(***************************************************************************)
(* C1: on /getData, /stats, /price and /category a request whose month is  *)
(* an integer outside 1..12 is answered 400 and the store is not queried.  *)
(***************************************************************************)
C1_OutOfRangeMonthRejected ==
  \A s \in Slots :
    /\ reqs[s].pc # "idle"
    /\ Has(reqs[s].params, "month")
    /\ IsIntLiteral(reqs[s].params["month"])
    /\ IntValue(reqs[s].params["month"]) \notin 1..12
    => /\ reqs[s].pc = "done"
       /\ reqs[s].status = 400
       /\ ~reqs[s].queried
       /\ reqs[s].sent = 1

C1_Witness ==
  \E s \in Slots :
    /\ reqs[s].ep = "stats" /\ reqs[s].pc = "done"
    /\ Has(reqs[s].params, "month") /\ reqs[s].params["month"] = <<"0">>
    /\ Has(reqs[s].params, "year") /\ reqs[s].params["year"] = <<"2", "0", "2", "1">>
    /\ reqs[s].status = 400 /\ ~reqs[s].queried

(***************************************************************************)
(* C2: on /stats and /price a request whose month or year is missing,      *)
(* empty or does not parse as an integer (or, on /price, whose year is     *)
(* outside 1900..current year) is answered 400 without a store query, and  *)
(* only requests with an integer month in 1..12 and an integer year reach  *)
(* the aggregation.                                                        *)
(***************************************************************************)
C2_ParamInvalid(slot, name) ==
  \/ ~Truthy(slot.params, name)
  \/ IsNaN(ParseInt(slot.params[name]))

C2_InvalidRequestsRejected ==
  \A s \in Slots :
    reqs[s].pc # "idle" /\ reqs[s].ep \in {"stats", "price"} =>
      /\ (\/ C2_ParamInvalid(reqs[s], "month")
          \/ C2_ParamInvalid(reqs[s], "year")
          \/ /\ reqs[s].ep = "price"
             /\ \/ ParseInt(reqs[s].params["year"]).v < 1900
                \/ ParseInt(reqs[s].params["year"]).v > thisYear)
         => reqs[s].pc = "done" /\ reqs[s].status = 400 /\ ~reqs[s].queried
      /\ reqs[s].queried =>
           /\ ~C2_ParamInvalid(reqs[s], "month")
           /\ ParseInt(reqs[s].params["month"]).v \in 1..12
           /\ ~C2_ParamInvalid(reqs[s], "year")

(***************************************************************************)
(* C3: for every month m in 1..12 a /getData request with month = m        *)
(* returns exactly the records that satisfy the search filter and are      *)
(* dated in month m of 2021, and does not end in a server error because of *)
(* the date bounds.                                                        *)
(***************************************************************************)
C3_Expected(slot) ==
  {r \in InMonthOfYear(store, IntValue(slot.params["month"]), 2021) :
     SearchClause(slot.params).useOr => OrMatches(SearchClause(slot.params), r)}

C3_MonthFilterIsCalendarMonth ==
  \A s \in Slots :
    /\ reqs[s].ep = "getData" /\ reqs[s].pc = "done"
    /\ MonthLiteralIn(reqs[s], 1, 12)
    => /\ reqs[s].status \in {200, 404, 500}
       /\ reqs[s].status = 500 => reqs[s].body.message \in StoreErrors
       /\ reqs[s].status = 200 => reqs[s].body = C3_Expected(reqs[s])
       /\ reqs[s].status = 404 => C3_Expected(reqs[s]) = {}

(***************************************************************************)
(* C4: with a non-empty search term s a /getData request matches exactly   *)
(* the records whose title, description or category contains s without     *)
(* regard to case, and, when s is a number n, also the records with        *)
(* price <= n; the month filter is AND-combined with that.                 *)
(***************************************************************************)
C4_Contains(text, s) ==
  \E i \in 1..(Len(text) - Len(s) + 1) :
    \A j \in 1..Len(s) : Lower(text[i + j - 1]) = Lower(s[j])

C4_SearchMatches(r, s) ==
  \/ C4_Contains(r.title, s)
  \/ C4_Contains(r.description, s)
  \/ C4_Contains(r.category, s)
  \/ IsIntLiteral(s) /\ r.price <= IntValue(s)

C4_Expected(slot) ==
  {r \in store :
     /\ C4_SearchMatches(r, slot.params["search"])
     /\ Has(slot.params, "month") =>
          r \in InMonthOfYear(store, IntValue(slot.params["month"]), 2021)}

\* Months 1..11 only, so that the statement does not rest on the upper date
\* bound of month 12.
C4_SearchIsSubstringOrPrice ==
  \A s \in Slots :
    /\ reqs[s].ep = "getData" /\ AnsweredByStore(reqs[s])
    /\ Truthy(reqs[s].params, "search")
    /\ Has(reqs[s].params, "month") => MonthLiteralIn(reqs[s], 1, 11)
    => /\ reqs[s].status = 200 => reqs[s].body = C4_Expected(reqs[s])
       /\ reqs[s].status = 404 => C4_Expected(reqs[s]) = {}

(***************************************************************************)
(* C5: a valid /stats request (month, year) is answered 200 with           *)
(* totalSaleAmount the sum of price over the sold records of that month of *)
(* that year, totalSoldItems their number and totalNotSoldItems the number *)
(* of unsold ones; all three are 0 when no record matches, and the two     *)
(* counts add up to the number of matching records.                        *)
(***************************************************************************)
C5_Matching(slot) ==
  InMonthOfYear(store, IntValue(slot.params["month"]), IntValue(slot.params["year"]))

C5_StatsTotals ==
  \A s \in Slots :
    /\ reqs[s].ep = "stats" /\ reqs[s].pc = "done" /\ reqs[s].error = ""
    /\ MonthLiteralIn(reqs[s], 1, 12) /\ YearLiteral(reqs[s])
    => LET M == C5_Matching(reqs[s])
           b == reqs[s].body
       IN /\ reqs[s].status = 200
          /\ DOMAIN b = {"totalSaleAmount", "totalSoldItems", "totalNotSoldItems"}
          /\ b.totalSaleAmount = SumPrice({r \in M : r.sold})
          /\ b.totalSoldItems = Cardinality({r \in M : r.sold})
          /\ b.totalNotSoldItems = Cardinality({r \in M : ~r.sold})
          /\ b.totalSoldItems + b.totalNotSoldItems = Cardinality(M)
          /\ M = {} => b.totalSaleAmount = 0 /\ b.totalSoldItems = 0
                       /\ b.totalNotSoldItems = 0

C5_Witness ==
  \E s \in Slots :
    /\ reqs[s].ep = "stats" /\ reqs[s].pc = "done" /\ reqs[s].status = 200
    /\ MonthLiteralIn(reqs[s], 1, 12) /\ YearLiteral(reqs[s])
    /\ reqs[s].body.totalSoldItems = 1
    /\ reqs[s].body.totalNotSoldItems = 1
    /\ reqs[s].body.totalSaleAmount = 100

(***************************************************************************)
(* C6: a valid /price request is answered with exactly the ten bands, each *)
(* a count >= 0; a matching record of price p counts in 0-100 iff          *)
(* 0 <= p <= 100, in band k (k = 1..8) iff 100k < p <= 100(k+1), in        *)
(* 901-above iff p > 900; the counts add up to the number of matching      *)
(* records with price >= 0.                                                *)
(***************************************************************************)
C6_Bands ==
  {"0-100", "101-200", "201-300", "301-400", "401-500", "501-600", "601-700",
   "701-800", "801-900", "901-above"}

C6_Counted(label, p) ==
  IF label = "0-100" THEN 0 <= p /\ p <= 100
  ELSE IF label = "901-above" THEN p > 900
  ELSE \E k \in 1..8 : /\ label = BandLabels[k + 1]
                       /\ 100 * k < p /\ p <= 100 * (k + 1)

RECURSIVE C6_Total(_, _)
C6_Total(ranges, labels) ==
  IF labels = {} THEN 0
  ELSE LET l == CHOOSE x \in labels : TRUE
       IN ranges[l] + C6_Total(ranges, labels \ {l})

C6_PriceBands ==
  \A s \in Slots :
    /\ reqs[s].ep = "price" /\ reqs[s].pc = "done" /\ reqs[s].error = ""
    /\ MonthLiteralIn(reqs[s], 1, 12) /\ YearLiteral(reqs[s])
    /\ reqs[s].queried
    => LET M == C5_Matching(reqs[s])
           ranges == reqs[s].body.priceRanges
       IN /\ reqs[s].status = 200
          /\ DOMAIN ranges = C6_Bands
          /\ \A l \in C6_Bands :
               ranges[l] = Cardinality({r \in M : C6_Counted(l, r.price)})
          /\ \A r \in M : r.price >= 0 =>
               Cardinality({l \in C6_Bands : C6_Counted(l, r.price)}) = 1
          /\ C6_Total(ranges, C6_Bands) = Cardinality({r \in M : r.price >= 0})

C6_Witness ==
  \E s \in Slots :
    /\ reqs[s].ep = "price" /\ reqs[s].pc = "done" /\ reqs[s].status = 200
    /\ reqs[s].body.priceRanges["0-100"] = 1
    /\ reqs[s].body.priceRanges["101-200"] = 1

(***************************************************************************)
(* C7: a valid /category request is answered 200 with exactly four         *)
(* entries, one per label men's clothing, women's clothing, electronics,   *)
(* jewelry, in that order; itemCount is the number of records of that      *)
(* category whose dateOfSale is in the requested month of any year, and a  *)
(* record of another category adds no entry.                               *)
(***************************************************************************)
C7_Labels == <<MensClothing, WomensClothing, Electronics, Jewelry>>

C7_CategoryCounts ==
  \A s \in Slots :
    /\ reqs[s].ep = "category" /\ reqs[s].pc = "done" /\ reqs[s].error = ""
    /\ MonthLiteralIn(reqs[s], 1, 12)
    => LET M == InMonth(store, IntValue(reqs[s].params["month"]))
           b == reqs[s].body
       IN /\ reqs[s].status = 200
          /\ DOMAIN b = 1..4
          /\ \A i \in 1..4 :
               /\ b[i].category = C7_Labels[i]
               /\ b[i].itemCount = Cardinality({r \in M : r.category = C7_Labels[i]})

C7_Witness ==
  \E s \in Slots :
    /\ reqs[s].ep = "category" /\ reqs[s].pc = "done" /\ reqs[s].status = 200
    /\ \E r \in InMonth(store, 1) : r.category = Jewelery
    /\ \E r \in InMonth(store, 1) : r.category = Electronics /\ r.dateOfSale.y = 2022
    /\ reqs[s].params["month"] = <<"1">>
    /\ reqs[s].body[3].itemCount = 1 /\ reqs[s].body[4].itemCount = 0

(***************************************************************************)
(* C8: when the store call of a validated request rejects, the response is *)
(* 500 and carries the raw message of the error to the caller; never 200,  *)
(* 400 or 404.                                                             *)
(***************************************************************************)
C8_Text(slot) == IF slot.ep = "getData" THEN slot.body.message ELSE slot.body.error

C8_StoreFailureSurfacesRawMessage ==
  \A s \in Slots :
    reqs[s].pc = "done" /\ reqs[s].error # "" =>
      reqs[s].status = 500 /\ C8_Text(reqs[s]) = reqs[s].error

\* As amended: 500 on every endpoint; /getData carries the raw message,
\* /stats, /price and /category answer a fixed text and log the raw message.
C8_FixedText ==
  [stats |-> "Failed to fetch monthly statistics.",
   price |-> "Failed to fetch price range statistics.",
   category |-> "Failed to fetch category statistics."]

C8_StoreFailureIs500 ==
  \A s \in Slots :
    reqs[s].pc = "done" /\ reqs[s].error # "" =>
      /\ reqs[s].status = 500
      /\ reqs[s].sent = 1
      /\ reqs[s].ep = "getData" => reqs[s].body = [message |-> reqs[s].error]
      /\ reqs[s].ep # "getData" =>
           /\ reqs[s].body = [error |-> C8_FixedText[reqs[s].ep]]
           /\ reqs[s].logged = reqs[s].error

C8_Witness ==
  \E s \in Slots :
    /\ reqs[s].ep = "price" /\ reqs[s].pc = "done"
    /\ reqs[s].error = "operation timed out"
    /\ reqs[s].status = 500 /\ reqs[s].logged = "operation timed out"

(***************************************************************************)
(* C9: a /getData request that passes validation and whose store call      *)
(* succeeds is answered 200 with all matching records iff at least one     *)
(* record matches, and 404 iff none does; a 200 never carries an empty     *)
(* list; with neither search nor month every record of the store matches.  *)
(***************************************************************************)
C9_Matching(slot) ==
  IF ~Truthy(slot.params, "search") /\ ~Truthy(slot.params, "month")
  THEN store
  ELSE Find(BuildQuery(slot.params), store)

C9_FoundOrNotFound ==
  \A s \in Slots :
    reqs[s].ep = "getData" /\ AnsweredByStore(reqs[s]) =>
      /\ reqs[s].status \in {200, 404}
      /\ reqs[s].status = 200 <=> C9_Matching(reqs[s]) # {}
      /\ reqs[s].status = 200 =>
           reqs[s].body = C9_Matching(reqs[s]) /\ reqs[s].body # {}
      /\ reqs[s].status = 404 => reqs[s].body = [message |-> "No products found"]

C9_Witness ==
  \E s \in Slots :
    /\ reqs[s].ep = "getData" /\ AnsweredByStore(reqs[s])
    /\ reqs[s].params = <<>>
    /\ reqs[s].status = 200 /\ reqs[s].body = store /\ Cardinality(store) = 2

(***************************************************************************)
(* C10: under any interleaving of concurrent requests the store's records  *)
(* never change, every request gets exactly one response, and the response *)
(* is one the same request gets when it runs alone against the store.      *)
(***************************************************************************)
\* The handler of the request run from arrival to response, nothing else
\* running: the responses it can end in.
C10_Start(ep, params, now) ==
  IF ep = "getData" THEN GetDataStart(params)
  ELSE IF ep = "stats" THEN StatsStart(params)
  ELSE IF ep = "price" THEN PriceStart(params, now)
  ELSE CategoryStart(params)

C10_Finish(first, S) ==
  IF first.ep = "getData" THEN GetDataFinish(first, Find(first.query, S))
  ELSE IF first.ep = "stats"
  THEN StatsFinish(first, StatsAggregate(S, first.query.monthInt, first.query.yearInt))
  ELSE IF first.ep = "price"
  THEN PriceFinish(first, PriceAggregate(S, first.query.monthInt, first.query.yearInt))
  ELSE CategoryFinish(first, CategoryAggregate(S, first.query.monthInt))

C10_Same(a, slot) ==
  a.status = slot.status /\ a.error = slot.error /\ a.body = slot.body

C10_Alone(slot, S, now) ==
  LET first == C10_Start(slot.ep, slot.params, now)
  IN IF first.pc = "done" THEN C10_Same(first, slot)
     ELSE \/ C10_Same(C10_Finish(first, S), slot)
          \/ \E e \in StoreErrors : C10_Same(Catch(Rejected(first, e), e), slot)
          \/ /\ first.ep = "getData" /\ HasInvalidDate(first.query)
             /\ C10_Same(Catch(Rejected(first, CastErrorMessage), CastErrorMessage), slot)

C10_AsIfAlone ==
  \A s \in Slots :
    reqs[s].pc = "done" =>
      /\ reqs[s].sent = 1
      /\ \E now \in Years : C10_Alone(reqs[s], store, now)

C10_ReadOnlyAndIndependent == [](C10_AsIfAlone) /\ [][store' = store]_vars

C10_Witness ==
  /\ reqs[1].pc = "done" /\ reqs[1].ep = "getData" /\ reqs[1].status = 200
  /\ Cardinality(reqs[1].body) = 1
  /\ reqs[2].pc = "awaiting" /\ reqs[2].ep = "getData"
  /\ reqs[2].query # reqs[1].query

====
